---- MODULE Spec2Model ----
(***************************************************************************)
(* Model of Python/src/create_database.py: the batch conversion of         *)
(* details.txt, Monitor5.txt and Monitor6.txt into fly_metadata.csv and    *)
(* time_series_data.csv (parse_details, parse_monitor_file, main).         *)
(*                                                                         *)
(* Text of the input files is kept as text: a channel name is a sequence   *)
(* of characters, a date, a time and a channel value are strings, and the  *)
(* conversions the code applies (read_csv's NA handling and column typing, *)
(* str.replace, int(), to_datetime, the f-string of fly_id) are modelled   *)
(* by what they do.                                                        *)
(***************************************************************************)
EXTENDS Integers, Sequences, FiniteSets, TLC

VARIABLES
    detailsFile,      \* ../details.txt            [exists, rows]
    monitorFiles,     \* ../Monitor5.txt, ../Monitor6.txt   [5|6 -> [exists, rows]]
    pc,               \* the statement of main() that runs next
    status,           \* "running", "done" or "aborted" (uncaught exception)
    error,            \* the uncaught exception: [type, line], line 0 when none
    fly_metadata,     \* main's fly_metadata (a DataFrame: sequence of rows)
    metadataCsv,      \* ../data/processed/fly_metadata.csv       [written, rows]
    monitor5_data,    \* main's monitor5_data
    monitor6_data,    \* main's monitor6_data
    time_series_data, \* main's time_series_data
    timeseriesCsv,    \* ../data/processed/time_series_data.csv   [written, rows]
    joined            \* main's joined

vars == <<detailsFile, monitorFiles, pc, status, error, fly_metadata, metadataCsv,
          monitor5_data, monitor6_data, time_series_data, timeseriesCsv, joined>>

----------------------------------------------------------------------------
(* Bounds of the model *)

\* rows of a monitor log
MaxRows == 2
\* rows of the details file
MaxDetails == 2
\* channel columns of a monitor log that the model carries (the code has 32)
NumChannels == 2

Channels == 1 .. NumChannels

----------------------------------------------------------------------------
(* Generic helpers *)

Range(s) == {s[i] : i \in 1 .. Len(s)}

SeqsUpTo(S, n) == UNION {[1 .. k -> S] : k \in 0 .. n}

RECURSIVE Concat(_)
\* concatenation of a sequence of sequences
Concat(ss) == IF ss = <<>> THEN <<>> ELSE Head(ss) \o Concat(Tail(ss))

\* number of positions of s holding x
Count(s, x) == Cardinality({i \in 1 .. Len(s) : s[i] = x})

----------------------------------------------------------------------------
(* Text conversions *)

\* pandas.read_csv, default na_values: these texts (among others) are read as NaN
DefaultNaTexts == {"", "NA", "N/A", "NaN", "nan", "null", "NULL", "n/a", "<NA>", "#N/A"}

NaN == [isnan |-> TRUE, text |-> ""]
Str(t) == [isnan |-> FALSE, text |-> t]

\* pandas.read_csv on one text cell of an object column
ReadCsvCell(t) == IF t \in DefaultNaTexts THEN NaN ELSE Str(t)

\* Series != 'literal', elementwise: NaN != 'NA' is True
NeText(cell, lit) == cell.isnan \/ cell.text # lit

\* DataFrame.to_csv on one object cell: NaN is written as the empty field
ToCsvCell(cell) == IF cell.isnan THEN "" ELSE cell.text

DigitChars == <<"0", "1", "2", "3", "4", "5", "6", "7", "8", "9">>

IsDigit(c) == \E d \in 1 .. 10 : DigitChars[d] = c

DigitValue(c) == (CHOOSE d \in 1 .. 10 : DigitChars[d] = c) - 1

RECURSIVE StrReplaceCh(_)
\* Series.str.replace('ch', ''): every occurrence of "ch" is removed, left to right
StrReplaceCh(s) ==
    IF Len(s) = 0 THEN <<>>
    ELSE IF Len(s) >= 2 /\ s[1] = "c" /\ s[2] = "h"
         THEN StrReplaceCh(SubSeq(s, 3, Len(s)))
         ELSE <<s[1]>> \o StrReplaceCh(Tail(s))

\* astype(int) accepts a non-empty run of digits (leading zeros allowed)
IsIntText(s) == Len(s) > 0 /\ \A i \in 1 .. Len(s) : IsDigit(s[i])

RECURSIVE IntOfText(_)
\* astype(int) of a run of digits
IntOfText(s) ==
    IF Len(s) = 0 THEN 0
    ELSE 10 * IntOfText(SubSeq(s, 1, Len(s) - 1)) + DigitValue(s[Len(s)])

RECURSIVE TextOfInt(_)
\* str(n) for n >= 0
TextOfInt(n) ==
    IF n < 10 THEN <<DigitChars[n + 1]>>
    ELSE TextOfInt(n \div 10) \o <<DigitChars[(n % 10) + 1]>>

\* f"{n:02d}"
Pad2(n) == IF n < 10 THEN <<"0">> \o TextOfInt(n) ELSE TextOfInt(n)

\* f"M{row['monitor']}_Ch{row['channel']:02d}"
FlyId(monitor, channel) ==
    <<"M">> \o TextOfInt(monitor) \o <<"_", "C", "h">> \o Pad2(channel)

----------------------------------------------------------------------------
(* Results of a call: the returned table, or the exception that propagates *)

NoError == [type |-> "", line |-> 0]

Returned(table) == [ok |-> TRUE, error |-> NoError, table |-> table]

Raised(type, line) == [ok |-> FALSE, error |-> [type |-> type, line |-> line], table |-> <<>>]

----------------------------------------------------------------------------
(* parse_details *)

\* one retained row of fly_metadata; index is the DataFrame index (the 0-based
\* position of the row in details.txt), which the boolean filter keeps
MetadataRow(rows, i) ==
    LET monitor == rows[i].Monitor
        channel == IntOfText(StrReplaceCh(rows[i].Channel))
    IN  [index     |-> i - 1,
         monitor   |-> monitor,
         channel   |-> channel,
         fly_id    |-> FlyId(monitor, channel),
         genotype  |-> ReadCsvCell(rows[i].Genotype),
         sex       |-> ReadCsvCell(rows[i].Sex),
         treatment |-> ReadCsvCell(rows[i].Treatment)]

\* fly_metadata[fly_metadata['genotype'] != 'NA']
DropNaGenotype(table) == SelectSeq(table, LAMBDA r : NeText(r.genotype, "NA"))

parse_details(file) ==
    IF ~file.exists THEN Raised("FileNotFoundError", 52)
    ELSE IF \E i \in 1 .. Len(file.rows) : ~IsIntText(StrReplaceCh(file.rows[i].Channel))
         THEN Raised("ValueError", 56)
         ELSE Returned(DropNaGenotype([i \in 1 .. Len(file.rows) |-> MetadataRow(file.rows, i)]))

\* fly_metadata.to_csv(metadata_path, index=False)
MetadataToCsv(table) ==
    [i \in 1 .. Len(table) |->
        [monitor   |-> table[i].monitor,
         channel   |-> table[i].channel,
         fly_id    |-> table[i].fly_id,
         genotype  |-> ToCsvCell(table[i].genotype),
         sex       |-> ToCsvCell(table[i].sex),
         treatment |-> ToCsvCell(table[i].treatment)]]

----------------------------------------------------------------------------
(* parse_monitor_file *)

\* date texts of the model, in lexicographic (str) order
DateTexts == <<"01 Jan 24", "02 Jan 24", "1 Jan 24", "31 Feb 24">>

\* time texts of the model, in lexicographic (str) order
TimeTexts == <<"00:00:00", "00:01:00">>

\* strptime '%d %b %y': days since 1 Jan 2024; a text outside the domain does
\* not match the format (31 Feb is no date)
DayOfDate == ("01 Jan 24" :> 0) @@ ("1 Jan 24" :> 0) @@ ("02 Jan 24" :> 1)

\* strptime '%H:%M:%S': seconds since midnight
SecondsOfTime == ("00:00:00" :> 0) @@ ("00:01:00" :> 60)

ParsesAsDatetime(row) == row.date \in DOMAIN DayOfDate /\ row.time \in DOMAIN SecondsOfTime

\* pd.to_datetime(date + ' ' + time): seconds since 2024-01-01 00:00:00
ToDatetime(row) == DayOfDate[row.date] * 86400 + SecondsOfTime[row.time]

TextRank(texts, t) == CHOOSE i \in 1 .. Len(texts) : texts[i] = t

\* channel value texts read_csv parses as integers
IntOfValue == ("0" :> 0) @@ ("2" :> 2) @@ ("5" :> 5)

\* read_csv gives a channel column an integer dtype when every cell of the
\* column is numeric, else the column holds str objects
IsNumericColumn(rows, c) == \A i \in 1 .. Len(rows) : rows[i].ch[c] \in DOMAIN IntOfValue

movement_types == {"MT", "CT", "Pn"}

\* df[df['movement_type'].isin(movement_types)]
FilterMovement(rows) == SelectSeq(rows, LAMBDA r : r.movement_type \in movement_types)

GroupKey(row) == <<row.id, row.date, row.time>>

\* order of the group keys under groupby(['id', 'date', 'time']) (sort=True)
KeyLess(a, b) ==
    \/ a[1] < b[1]
    \/ a[1] = b[1] /\ TextRank(DateTexts, a[2]) < TextRank(DateTexts, b[2])
    \/ a[1] = b[1] /\ a[2] = b[2] /\ TextRank(TimeTexts, a[3]) < TextRank(TimeTexts, b[3])

RECURSIVE SortedKeys(_)
SortedKeys(K) ==
    IF K = {} THEN <<>>
    ELSE LET k == CHOOSE x \in K : \A y \in K \ {x} : KeyLess(x, y)
         IN  <<k>> \o SortedKeys(K \ {k})

\* the rows of one group, in file order
GroupRows(rows, key) == SelectSeq(rows, LAMBDA r : GroupKey(r) = key)

\* group[group['movement_type'] == t].iloc[0] if t in group['movement_type'].values
\* else None: <<row>> or <<>>
TypeData(group, t) ==
    LET sel == SelectSeq(group, LAMBDA r : r.movement_type = t)
    IN  IF sel = <<>> THEN <<>> ELSE <<Head(sel)>>

\* x_data[channel_col] if x_data is not None else 0
ChannelValue(data, c) == IF data = <<>> THEN 0 ELSE IntOfValue[data[1].ch[c]]

\* IsActive with >= in place of >: every channel of every group is kept
IsActiveNonNegative(mt, ct, pn) == mt >= 0 \/ ct >= 0 \/ pn >= 0

\* mt_val > 0 or ct_val > 0 or pn_val > 0
IsActive(mt, ct, pn) == mt > 0 \/ ct > 0 \/ pn > 0

\* GroupRecords with pn_val read from ct_data (a copied line left unchanged)
GroupRecordsPnFromCt(group, monitor_num) ==
    LET mt_data == TypeData(group, "MT")
        ct_data == TypeData(group, "CT")
        rec(c) == [datetime |-> ToDatetime(group[1]),
                   monitor  |-> monitor_num,
                   channel  |-> c,
                   mt       |-> ChannelValue(mt_data, c),
                   ct       |-> ChannelValue(ct_data, c),
                   pn       |-> ChannelValue(ct_data, c)]
    IN  SelectSeq([c \in Channels |-> rec(c)], LAMBDA r : IsActive(r.mt, r.ct, r.pn))

\* the records one group appends to time_series_list (channel loop, lines 134-151)
GroupRecords(group, monitor_num) ==
    LET mt_data == TypeData(group, "MT")
        ct_data == TypeData(group, "CT")
        pn_data == TypeData(group, "Pn")
        rec(c) == [datetime |-> ToDatetime(group[1]),
                   monitor  |-> monitor_num,
                   channel  |-> c,
                   mt       |-> ChannelValue(mt_data, c),
                   ct       |-> ChannelValue(ct_data, c),
                   pn       |-> ChannelValue(pn_data, c)]
    IN  SelectSeq([c \in Channels |-> rec(c)], LAMBDA r : IsActive(r.mt, r.ct, r.pn))

\* the reshape loop over the groups (lines 122-151)
Reshape(rows, monitor_num) ==
    LET keys == SortedKeys({GroupKey(rows[i]) : i \in 1 .. Len(rows)})
    IN  Concat([g \in 1 .. Len(keys) |-> GroupRecords(GroupRows(rows, keys[g]), monitor_num)])

parse_monitor_file(file, monitor_num) ==
    IF ~file.exists THEN Raised("FileNotFoundError", 98)
    ELSE IF file.rows = <<>> THEN Raised("EmptyDataError", 98)
    ELSE IF \E i \in 1 .. Len(file.rows) : ~ParsesAsDatetime(file.rows[i])
         THEN Raised("ValueError", 110)
    ELSE LET df_filtered == FilterMovement(file.rows)
         IN  IF df_filtered # <<>> /\ \E c \in Channels : ~IsNumericColumn(file.rows, c)
             \* a str cell of the first group is compared with 0
             THEN Raised("TypeError", 143)
             ELSE LET time_series_df == Reshape(df_filtered, monitor_num)
                  IN  IF time_series_df = <<>>
                      \* pd.DataFrame([]) has no 'channel' column
                      THEN Raised("KeyError", 156)
                      ELSE Returned(time_series_df)

----------------------------------------------------------------------------
(* main: combine, save, join *)

\* SortKeyLess with the columns listed as ['monitor', 'datetime', 'channel']
SortKeyMonitorFirst(a, b) ==
    \/ a.monitor < b.monitor
    \/ a.monitor = b.monitor /\ a.datetime < b.datetime
    \/ a.monitor = b.monitor /\ a.datetime = b.datetime /\ a.channel < b.channel

\* the sort key of sort_values(['datetime', 'monitor', 'channel'])
SortKeyLess(a, b) ==
    \/ a.datetime < b.datetime
    \/ a.datetime = b.datetime /\ a.monitor < b.monitor
    \/ a.datetime = b.datetime /\ a.monitor = b.monitor /\ a.channel < b.channel

\* r placed after every row of the sorted s that is not greater than it
InsertSorted(s, r) ==
    LET n == Cardinality({i \in 1 .. Len(s) : ~SortKeyLess(r, s[i])})
    IN  SubSeq(s, 1, n) \o <<r>> \o SubSeq(s, n + 1, Len(s))

RECURSIVE SortValues(_)
\* DataFrame.sort_values on several columns: a stable sort (rows with equal keys
\* keep their order)
SortValues(s) ==
    IF s = <<>> THEN <<>>
    ELSE InsertSorted(SortValues(SubSeq(s, 1, Len(s) - 1)), s[Len(s)])

\* pd.concat([monitor5_data, monitor6_data], ignore_index=True).sort_values(...)
CombineTables(t5, t6) == SortValues(t5 \o t6)

\* "YYYY-MM-DD HH:MM:SS" as to_csv writes a datetime: <<days, seconds of the day>>
CsvDatetime(d) == <<d \div 86400, d % 86400>>

\* time_series_data.to_csv(timeseries_path, index=False)
TimeSeriesToCsv(table) ==
    [i \in 1 .. Len(table) |->
        [datetime |-> CsvDatetime(table[i].datetime),
         monitor  |-> table[i].monitor,
         channel  |-> table[i].channel,
         mt       |-> table[i].mt,
         ct       |-> table[i].ct,
         pn       |-> table[i].pn]]

JoinedRow(t, m) ==
    [datetime |-> t.datetime, monitor |-> t.monitor, channel |-> t.channel,
     mt |-> t.mt, ct |-> t.ct, pn |-> t.pn,
     fly_id |-> m.fly_id, genotype |-> m.genotype, sex |-> m.sex,
     treatment |-> m.treatment]

\* the metadata rows one time-series row joins with, in metadata order
Matches(t, meta) == SelectSeq(meta, LAMBDA m : m.monitor = t.monitor /\ m.channel = t.channel)

\* time_series_data.merge(fly_metadata, on=['monitor', 'channel']): inner join,
\* one row per pair of rows with equal keys, in the order of the left rows
Merge(ts, meta) ==
    Concat([i \in 1 .. Len(ts) |->
              LET ms == Matches(ts[i], meta)
              IN  [j \in 1 .. Len(ms) |-> JoinedRow(ts[i], ms[j])]])

NotWritten == [written |-> FALSE, rows |-> <<>>]

\* the call returned: main goes on at `next`; it raised: the run aborts here
Step(result, next) ==
    IF result.ok
    THEN /\ pc' = next
         /\ UNCHANGED <<status, error>>
    ELSE /\ status' = "aborted"
         /\ error' = result.error
         /\ UNCHANGED pc

\* line 182
ParseDetails ==
    /\ status = "running" /\ pc = "parse_details"
    /\ LET r == parse_details(detailsFile)
       IN  /\ Step(r, "save_metadata")
           /\ fly_metadata' = r.table
    /\ UNCHANGED <<detailsFile, monitorFiles, metadataCsv, monitor5_data, monitor6_data,
                   time_series_data, timeseriesCsv, joined>>

\* lines 185-186
SaveMetadata ==
    /\ status = "running" /\ pc = "save_metadata"
    /\ metadataCsv' = [written |-> TRUE, rows |-> MetadataToCsv(fly_metadata)]
    /\ pc' = "parse_monitor5"
    /\ UNCHANGED <<detailsFile, monitorFiles, status, error, fly_metadata, monitor5_data,
                   monitor6_data, time_series_data, timeseriesCsv, joined>>

\* ParseMonitor5 that also saves the table of Monitor 5 as soon as it is parsed
ParseMonitor5SavingPartial ==
    /\ status = "running" /\ pc = "parse_monitor5"
    /\ LET r == parse_monitor_file(monitorFiles[5], 5)
       IN  /\ Step(r, "parse_monitor6")
           /\ monitor5_data' = r.table
           /\ timeseriesCsv' = IF r.ok THEN [written |-> TRUE, rows |-> TimeSeriesToCsv(r.table)]
                               ELSE timeseriesCsv
    /\ UNCHANGED <<detailsFile, monitorFiles, fly_metadata, metadataCsv, monitor6_data,
                   time_series_data, joined>>

\* line 194
ParseMonitor5 ==
    /\ status = "running" /\ pc = "parse_monitor5"
    /\ LET r == parse_monitor_file(monitorFiles[5], 5)
       IN  /\ Step(r, "parse_monitor6")
           /\ monitor5_data' = r.table
    /\ UNCHANGED <<detailsFile, monitorFiles, fly_metadata, metadataCsv, monitor6_data,
                   time_series_data, timeseriesCsv, joined>>

\* line 195
ParseMonitor6 ==
    /\ status = "running" /\ pc = "parse_monitor6"
    /\ LET r == parse_monitor_file(monitorFiles[6], 6)
       IN  /\ Step(r, "combine")
           /\ monitor6_data' = r.table
    /\ UNCHANGED <<detailsFile, monitorFiles, fly_metadata, metadataCsv, monitor5_data,
                   time_series_data, timeseriesCsv, joined>>

\* lines 198-201
Combine ==
    /\ status = "running" /\ pc = "combine"
    /\ time_series_data' = CombineTables(monitor5_data, monitor6_data)
    /\ pc' = "save_timeseries"
    /\ UNCHANGED <<detailsFile, monitorFiles, status, error, fly_metadata, metadataCsv,
                   monitor5_data, monitor6_data, timeseriesCsv, joined>>

\* lines 204-205
SaveTimeSeries ==
    /\ status = "running" /\ pc = "save_timeseries"
    /\ timeseriesCsv' = [written |-> TRUE, rows |-> TimeSeriesToCsv(time_series_data)]
    /\ pc' = "join"
    /\ UNCHANGED <<detailsFile, monitorFiles, status, error, fly_metadata, metadataCsv,
                   monitor5_data, monitor6_data, time_series_data, joined>>

\* DemoJoin that keeps the joined rows as the time-series table and saves it again
DemoJoinFiltering ==
    /\ status = "running" /\ pc = "join"
    /\ joined' = Merge(time_series_data, fly_metadata)
    /\ time_series_data' = SelectSeq(time_series_data,
                                     LAMBDA t : \E i \in 1 .. Len(fly_metadata) :
                                        fly_metadata[i].monitor = t.monitor /\ fly_metadata[i].channel = t.channel)
    /\ timeseriesCsv' = [written |-> TRUE, rows |-> TimeSeriesToCsv(time_series_data')]
    /\ pc' = "done"
    /\ status' = "done"
    /\ UNCHANGED <<detailsFile, monitorFiles, error, fly_metadata, metadataCsv,
                   monitor5_data, monitor6_data>>

\* lines 208-264: the report prints, the join, and the normal return of main
DemoJoin ==
    /\ status = "running" /\ pc = "join"
    /\ joined' = Merge(time_series_data, fly_metadata)
    /\ pc' = "done"
    /\ status' = "done"
    /\ UNCHANGED <<detailsFile, monitorFiles, error, fly_metadata, metadataCsv,
                   monitor5_data, monitor6_data, time_series_data, timeseriesCsv>>

Next ==
    \/ ParseDetails
    \/ SaveMetadata
    \/ ParseMonitor5
    \/ ParseMonitor6
    \/ Combine
    \/ SaveTimeSeries
    \/ DemoJoin

----------------------------------------------------------------------------
(* Input files *)

Missing == [exists |-> FALSE, rows |-> <<>>]
File(rows) == [exists |-> TRUE, rows |-> rows]

\* Channel texts of details.txt: "ch1", "ch01", "ch2", and "ch" (no numeric suffix)
ChannelTexts == {<<"c", "h", "1">>, <<"c", "h", "0", "1">>, <<"c", "h", "2">>, <<"c", "h">>}

DetailRow(m, c, g) == [Monitor |-> m, Channel |-> c, Genotype |-> g, Sex |-> "M", Treatment |-> "ctl"]

DetailRows == {DetailRow(m, c, g) : m \in {5, 6}, c \in ChannelTexts, g \in {"NA", "wt"}}

MonitorRow(id, date, time, type, ch) ==
    [id |-> id, date |-> date, time |-> time, movement_type |-> type, ch |-> ch]

\* channel values of one log row
ZeroVec == [c \in Channels |-> "0"]
First5Vec == [c \in Channels |-> IF c = 1 THEN "5" ELSE "0"]
First2Vec == [c \in Channels |-> IF c = 1 THEN "2" ELSE "0"]
Last5Vec == [c \in Channels |-> IF c = NumChannels THEN "5" ELSE "0"]
TextVec == [c \in Channels |-> IF c = 1 THEN "x" ELSE "0"]

\* (id, date, time) of the log rows: two ids at one instant, and a later instant
Stamps == {<<1, "01 Jan 24", "00:00:00">>, <<2, "01 Jan 24", "00:00:00">>,
           <<1, "02 Jan 24", "00:00:00">>}

\* rows of the three recognized movement types, and rows of another type (whose
\* channel values the code never reads)
MonitorRows ==
    {MonitorRow(s[1], s[2], s[3], t, v) :
        s \in Stamps, t \in movement_types, v \in {ZeroVec, First5Vec, First2Vec, Last5Vec}}
    \cup {MonitorRow(s[1], s[2], s[3], "XX", First5Vec) : s \in Stamps}

\* a small valid installation
SampleDetails == File(<<DetailRow(5, <<"c", "h", "1">>, "wt"), DetailRow(6, <<"c", "h", "1">>, "wt")>>)
SampleMonitor5 == File(<<MonitorRow(1, "01 Jan 24", "00:01:00", "MT", First5Vec)>>)
SampleMonitor6 == File(<<MonitorRow(1, "01 Jan 24", "00:00:00", "MT", First5Vec)>>)

\* the inputs of the whole-run specification
MainDetails ==
    {Missing,
     File(<<DetailRow(5, <<"c", "h">>, "wt")>>),
     File(<<DetailRow(5, <<"c", "h", "1">>, "wt")>>),
     SampleDetails}

MainRows ==
    {MonitorRow(1, "01 Jan 24", "00:00:00", "MT", First5Vec),
     MonitorRow(1, "02 Jan 24", "00:00:00", "CT", Last5Vec),
     MonitorRow(1, "01 Jan 24", "00:00:00", "Pn", ZeroVec),
     MonitorRow(1, "31 Feb 24", "00:00:00", "MT", First5Vec),
     MonitorRow(1, "01 Jan 24", "00:00:00", "MT", TextVec)}

MainFiles == {Missing} \cup {File(s) : s \in SeqsUpTo(MainRows, MaxRows)}

InitRun ==
    /\ pc = "parse_details"
    /\ status = "running"
    /\ error = NoError
    /\ fly_metadata = <<>>
    /\ metadataCsv = NotWritten
    /\ monitor5_data = <<>>
    /\ monitor6_data = <<>>
    /\ time_series_data = <<>>
    /\ timeseriesCsv = NotWritten
    /\ joined = <<>>

\* the whole run over small inputs, missing and malformed ones included
Init ==
    /\ detailsFile \in MainDetails
    /\ monitorFiles \in [{5, 6} -> MainFiles]
    /\ InitRun

\* the run over every details file of the bound, the logs being valid
InitDetails ==
    /\ detailsFile \in {File(s) : s \in SeqsUpTo(DetailRows, MaxDetails) \ {<<>>}}
    /\ monitorFiles = (5 :> SampleMonitor5) @@ (6 :> SampleMonitor6)
    /\ InitRun

\* the run over every Monitor5.txt of the bound, the other inputs being valid
InitMonitor ==
    /\ detailsFile = SampleDetails
    /\ monitorFiles \in {(5 :> File(s)) @@ (6 :> SampleMonitor6) : s \in SeqsUpTo(MonitorRows, MaxRows)}
    /\ InitRun

Spec == Init /\ [][Next]_vars

SpecDetails == InitDetails /\ [][Next]_vars

SpecMonitor == InitMonitor /\ [][Next]_vars

----------------------------------------------------------------------------
(* Vocabulary of the properties *)

DetailsParsed == pc # "parse_details"

\* parse_monitor_file('../Monitor5.txt', 5) has just returned its table
Monitor5Returned == pc = "parse_monitor6"

SameKey(a, b) == a.monitor = b.monitor /\ a.channel = b.channel

HasMetadata(t) == \E i \in 1 .. Len(fly_metadata) : SameKey(fly_metadata[i], t)

WellFormedDetails ==
    /\ detailsFile.exists
    /\ \A i \in 1 .. Len(detailsFile.rows) :
          LET c == detailsFile.rows[i].Channel
          IN  Len(c) > 2 /\ c[1] = "c" /\ c[2] = "h" /\ \A k \in 3 .. Len(c) : IsDigit(c[k])

WellFormedLog(file) ==
    /\ file.exists
    /\ file.rows # <<>>
    /\ \A i \in 1 .. Len(file.rows) :
          /\ file.rows[i].date \in {"01 Jan 24", "1 Jan 24", "02 Jan 24"}
          /\ file.rows[i].time \in {"00:00:00", "00:01:00"}
          /\ \A c \in Channels : file.rows[i].ch[c] \in {"0", "2", "5"}

WellFormedInputs == WellFormedDetails /\ WellFormedLog(monitorFiles[5]) /\ WellFormedLog(monitorFiles[6])

\* the rows of Monitor5.txt with a recognized movement type
Recognized5 ==
    {i \in 1 .. Len(monitorFiles[5].rows) : monitorFiles[5].rows[i].movement_type \in {"MT", "CT", "Pn"}}

Groups5 == {GroupKey(monitorFiles[5].rows[i]) : i \in Recognized5}

\* channel c of the first row of group k with movement type t; 0 when the group has none
ValueIn5(k, t, c) ==
    LET rows == monitorFiles[5].rows
        I == {i \in Recognized5 : GroupKey(rows[i]) = k /\ rows[i].movement_type = t}
    IN  IF I = {} THEN 0
        ELSE IntOfValue[rows[CHOOSE i \in I : \A j \in I : i <= j].ch[c]]

Expected5(k, c) ==
    [datetime |-> DayOfDate[k[2]] * 86400 + SecondsOfTime[k[3]],
     monitor  |-> 5,
     channel  |-> c,
     mt       |-> ValueIn5(k, "MT", c),
     ct       |-> ValueIn5(k, "CT", c),
     pn       |-> ValueIn5(k, "Pn", c)]

AnyPositive(r) == r.mt > 0 \/ r.ct > 0 \/ r.pn > 0

ActivePairs5 == {kc \in Groups5 \X Channels : AnyPositive(Expected5(kc[1], kc[2]))}

\* order of two rows of time_series_data.csv by (datetime, monitor, channel)
CsvNotAfter(a, b) ==
    LET ka == <<a.datetime[1], a.datetime[2], a.monitor, a.channel>>
        kb == <<b.datetime[1], b.datetime[2], b.monitor, b.channel>>
    IN  \/ ka = kb
        \/ \E n \in 1 .. 4 : ka[n] < kb[n] /\ \A m \in 1 .. (n - 1) : ka[m] = kb[m]

----------------------------------------------------------------------------
(* Properties *)

\* C1: no record of the fly-metadata table, and so no row of fly_metadata.csv,
\* comes from a row of details.txt whose Genotype field is the text "NA".
C1_NaGenotypeRowsExcluded ==
    DetailsParsed =>
        /\ \A i \in 1 .. Len(fly_metadata) :
              detailsFile.rows[fly_metadata[i].index + 1].Genotype # "NA"
        /\ metadataCsv.written =>
              Len(metadataCsv.rows) =
                 Cardinality({i \in 1 .. Len(detailsFile.rows) : detailsFile.rows[i].Genotype # "NA"})

\* C2: for every (id, date, time) group of Monitor5.txt and every channel with a
\* positive value, parse_monitor_file returns one record holding the channel's
\* value in the group's MT, CT and Pn row, 0 for a movement type without a row;
\* an all-zero channel gives no record; a group with missing rows does not abort
\* the parse.
C2_GroupRecords ==
    LET active == ActivePairs5
        expected == {Expected5(kc[1], kc[2]) : kc \in active}
    IN  /\ Monitor5Returned =>
              /\ \A e \in expected :
                    Count(monitor5_data, e) =
                       Cardinality({x \in active : Expected5(x[1], x[2]) = e})
              /\ Len(monitor5_data) = Cardinality(active)
        /\ (pc = "parse_monitor5" /\ status = "aborted" /\ WellFormedLog(monitorFiles[5]))
              => active = {}

\* the example of C2: an MT row (ch1=5) and a CT row (ch1=2) of one group, no Pn row
C2_Witness ==
    /\ Monitor5Returned
    /\ monitorFiles[5].rows =
          <<MonitorRow(1, "01 Jan 24", "00:00:00", "MT", First5Vec),
            MonitorRow(1, "01 Jan 24", "00:00:00", "CT", First2Vec)>>
    /\ monitor5_data =
          <<[datetime |-> 0, monitor |-> 5, channel |-> 1, mt |-> 5, ct |-> 2, pn |-> 0]>>

\* C3: every record returned by parse_monitor_file, every row of the combined
\* table and every row of time_series_data.csv has mt > 0 or ct > 0 or pn > 0.
C3_NoAllZeroRows ==
    /\ \A r \in Range(monitor5_data) \cup Range(monitor6_data) \cup Range(time_series_data) :
          AnyPositive(r)
    /\ \A r \in Range(timeseriesCsv.rows) : AnyPositive(r)

\* a group of Monitor5.txt has an all-zero channel and an active one, and the table is saved
C3_Witness ==
    /\ timeseriesCsv.written
    /\ \E k \in Groups5 : \E c, d \in Channels :
          /\ ~AnyPositive(Expected5(k, c))
          /\ AnyPositive(Expected5(k, d))
          /\ Expected5(k, d) \in Range(time_series_data)

\* C4: time_series_data.csv is sorted non-decreasingly by (datetime, monitor,
\* channel), holds exactly the records of both per-monitor tables, and sorting the
\* combined table again changes nothing.
C4_SortedCombination ==
    timeseriesCsv.written =>
        LET rows == timeseriesCsv.rows
            parts == TimeSeriesToCsv(monitor5_data \o monitor6_data)
        IN  /\ \A i \in 1 .. (Len(rows) - 1) : CsvNotAfter(rows[i], rows[i + 1])
            /\ Len(rows) = Len(parts)
            /\ \A r \in Range(rows) \cup Range(parts) : Count(rows, r) = Count(parts, r)
            /\ SortValues(time_series_data) = time_series_data

\* a Monitor 6 record earlier than every Monitor 5 record comes first in the file
C4_Witness ==
    /\ timeseriesCsv.written
    /\ monitor5_data # <<>>
    /\ \E r \in Range(monitor6_data) :
          /\ \A q \in Range(monitor5_data) : r.datetime < q.datetime
          /\ timeseriesCsv.rows[1].monitor = 6
    /\ monitor5_data \o monitor6_data # time_series_data

\* C5: the join has at most as many rows as the time-series table, and as many
\* exactly when every (monitor, channel) of the time-series table has metadata.
C5_JoinCardinality ==
    status = "done" =>
        /\ Len(joined) <= Len(time_series_data)
        /\ (Len(joined) = Len(time_series_data))
              <=> (\A t \in Range(time_series_data) : HasMetadata(t))

\* C6: no two records of the fly-metadata table share (monitor, channel).
C6_UniqueMonitorChannel ==
    DetailsParsed =>
        \A i, j \in 1 .. Len(fly_metadata) :
            i # j => ~SameKey(fly_metadata[i], fly_metadata[j])

\* C7: no two rows of time_series_data.csv share (datetime, monitor, channel).
C7_OneRowPerChannelTimestamp ==
    timeseriesCsv.written =>
        \A i, j \in 1 .. Len(timeseriesCsv.rows) :
            i # j =>
              <<timeseriesCsv.rows[i].datetime, timeseriesCsv.rows[i].monitor, timeseriesCsv.rows[i].channel>>
              # <<timeseriesCsv.rows[j].datetime, timeseriesCsv.rows[j].monitor, timeseriesCsv.rows[j].channel>>

\* C8: the join step finds time_series_data.csv already written and changes
\* neither file nor the two tables; a time-series row without metadata is not in
\* the join and is in the file.
C8_JoinIsReadOnly ==
    [][pc = "join" =>
          /\ timeseriesCsv.written
          /\ timeseriesCsv' = timeseriesCsv
          /\ metadataCsv' = metadataCsv
          /\ time_series_data' = time_series_data
          /\ fly_metadata' = fly_metadata
          /\ timeseriesCsv.rows = TimeSeriesToCsv(time_series_data)
          /\ \A i \in 1 .. Len(time_series_data) :
                ~HasMetadata(time_series_data[i]) =>
                    /\ \A q \in Range(joined') : ~SameKey(q, time_series_data[i])
                    /\ timeseriesCsv'.rows[i] = TimeSeriesToCsv(time_series_data)[i]]_vars

\* the run is over, and a saved time-series row without metadata is not in the join
C8_Witness ==
    /\ status = "done"
    /\ \E i \in 1 .. Len(time_series_data) :
          /\ ~HasMetadata(time_series_data[i])
          /\ \A q \in Range(joined) : ~SameKey(q, time_series_data[i])
          /\ timeseriesCsv.rows[i].monitor = time_series_data[i].monitor
    /\ joined # <<>>

\* C9: a run over inputs that exist and are well-formed does not abort, and a
\* finished run has written both files.
C9_WellFormedRunsSucceed ==
    /\ (status = "aborted") => ~WellFormedInputs
    /\ (status = "done") => (metadataCsv.written /\ timeseriesCsv.written)

====
